---- MODULE Spec2Model ----
(***************************************************************************)
(* Model of app.py: the Streamlit front-end of the WAN 2.2 text-to-video   *)
(* Space.  Modelled: sanitize_filename, connect, generate_video and the    *)
(* script body (cached_client, the Generate button handler).               *)
(*                                                                         *)
(* Strings are sequences of one-character strings.  Seconds are counted in *)
(* tenths (duration 5.1 s is 51, the backoff 1.2 * attempt is 12*attempt). *)
(***************************************************************************)
EXTENDS Integers, Sequences, FiniteSets, TLC

\* ------------------------------------------------------------------ bounds
\* longest arbitrary head and tail around the filler of a sanitize input
MaxEdge == 2

\* longest space_ids list handed to connect directly
MaxSpaces == 3

\* largest absolute value of the retries argument handed to generate_video
MaxAbsRetries == 5

\* ------------------------------------------------------- program constants
\* the slice [:80] of sanitize_filename
NameCap == 80

VARIABLES
    san_pc,       \* "idle" | "in" | "out": position of a sanitize_filename call
    san_in,       \* argument s of sanitize_filename
    san_out,      \* its return value
    c_pc,         \* connect: "idle" | "loop" | "returned" | "raised"
    space_ids,    \* connect: argument space_ids
    hf_token,     \* the HF_TOKEN of the process environment
    c_i,          \* connect: position in space_ids of the next target
    last_err,     \* connect: local last_err
    c_ret,        \* connect: the client returned
    c_raised,     \* connect: the exception raised
    c_log,        \* connect: the endpoints contacted so far, in order
    g_pc,         \* generate_video: "idle" | "loop" | "returned" | "raised"
    g_client,     \* generate_video: argument client
    g_prompt,     \* generate_video: argument prompt
    g_duration,   \* generate_video: argument duration (tenths of a second)
    g_retries,    \* generate_video: argument retries
    g_attempt,    \* generate_video: completed iterations of the for loop
    last_exc,     \* generate_video: local last_exc
    g_ret,        \* generate_video: the (dest, seed) pair returned
    g_raised,     \* generate_video: the exception raised
    g_resp,       \* generate_video: what the latest attempt met (see Responses)
    g_calls,      \* generate_video: duration_seconds of each predict call made
    g_sleeps,     \* generate_video: length of each time.sleep made
    g_events,     \* generate_video: "predict" and "sleep" in the order made
    g_copied,     \* generate_video: files copied into OUT_DIR by this call
    ui_pc,        \* script: "off" | "idle" | "connecting" | "button" | "generating"
    ui_clicked,   \* script: this run was started by a click on Generate
    ui_duration,  \* script: value of the duration slider in this run
    ui_prompt,    \* script: prompt of this run
    ui_shown,     \* script: elements rendered by the current run
    ui_result,    \* script: how the current (or last) run ended
    ui_prev,      \* script: how the run before it ended
    cache         \* st.cache_resource entry of cached_client for hf_token

san_vars == <<san_in, san_out, san_pc>>

c_vars == <<c_pc, space_ids, c_i, last_err, c_ret, c_raised, c_log>>

g_vars ==
    <<g_pc, g_client, g_prompt, g_duration, g_retries, g_attempt, last_exc,
      g_ret, g_raised, g_resp, g_calls, g_sleeps, g_events, g_copied>>

ui_vars ==
    <<ui_pc, ui_clicked, ui_duration, ui_prompt, ui_shown, ui_result, ui_prev, cache>>

vars == <<san_vars, c_vars, hf_token, g_vars, ui_vars>>

\* ----------------------------------------------------------------- helpers
SeqsUpTo(S, n) == UNION {[1..k -> S] : k \in 0..n}

Rep(c, n) == [i \in 1..n |-> c]

\* ------------------------------------------------------- sanitize_filename
Letters ==
    {"a","b","c","d","e","f","g","h","i","j","k","l","m",
     "n","o","p","q","r","s","t","u","v","w","x","y","z",
     "A","B","C","D","E","F","G","H","I","J","K","L","M",
     "N","O","P","Q","R","S","T","U","V","W","X","Y","Z"}

Digits == {"0","1","2","3","4","5","6","7","8","9"}

\* the characters the negated class [^A-Za-z0-9_. -] does not match
KeptChars == Letters \cup Digits \cup {"_", ".", " ", "-"}

\* s[:n]
Prefix(s, n) == IF n >= Len(s) THEN s ELSE SubSeq(s, 1, n)

\* the mutant of ReSubRange: the pattern without its "+", one "_" per character
RECURSIVE ReSubNoPlus(_, _, _)
ReSubNoPlus(s, lo, hi) ==
    IF lo > hi THEN <<>>
    ELSE IF lo = hi THEN (IF s[lo] \in KeptChars THEN <<s[lo]>> ELSE <<"_">>)
    ELSE LET mid == (lo + hi) \div 2
         IN  ReSubNoPlus(s, lo, mid) \o ReSubNoPlus(s, mid + 1, hi)

\* re.sub(r'[^A-Za-z0-9_. -]+', '_', s) on the positions lo..hi of s: a
\* character of the class stays; a maximal run of other characters becomes
\* one "_", written where the run ends.  The recursion halves the range.
RECURSIVE ReSubRange(_, _, _)
ReSubRange(s, lo, hi) ==
    IF lo > hi THEN <<>>
    ELSE IF lo = hi
         THEN IF s[lo] \in KeptChars THEN <<s[lo]>>
              ELSE IF lo < Len(s) /\ s[lo + 1] \notin KeptChars THEN <<>>
              ELSE <<"_">>
    ELSE LET mid == (lo + hi) \div 2
         IN  ReSubRange(s, lo, mid) \o ReSubRange(s, mid + 1, hi)

ReSub(s) == ReSubRange(s, 1, Len(s))

\* str.strip() on a string whose only whitespace is " ": the slice from
\* the first to the last character that is not a space
Strip(s) ==
    LET solid == {i \in 1..Len(s) : s[i] # " "}
    IN  IF solid = {} THEN <<>>
        ELSE SubSeq(s, CHOOSE i \in solid : \A j \in solid : i <= j,
                       CHOOSE i \in solid : \A j \in solid : i >= j)

\* s.replace(' ', '_')
ReplaceSpace(s) == [i \in 1..Len(s) |-> IF s[i] = " " THEN "_" ELSE s[i]]

sanitize_filename(s) == ReplaceSpace(Strip(Prefix(ReSub(s), NameCap)))

\* the strings sanitize_filename is applied to: an arbitrary head and tail
\* around a filler whose length straddles the [:80] slice
SanAlphabet == {"a", " ", "!", "_"}

FillChars == {"a", " ", "!"}

FillLens == {0} \cup ((NameCap - MaxEdge - 1)..(NameCap + 1))

SanInputs ==
    {h \o Rep(f, n) \o tl :
        h \in SeqsUpTo(SanAlphabet, MaxEdge), tl \in SeqsUpTo(SanAlphabet, MaxEdge),
        f \in FillChars, n \in FillLens}

SanIdle == san_pc = "idle" /\ san_in = <<>> /\ san_out = <<>>

SanitizeCall ==
    /\ san_pc = "in"
    /\ san_out' = sanitize_filename(san_in)
    /\ san_pc' = "out"
    /\ UNCHANGED <<san_in, c_vars, hf_token, g_vars, ui_vars>>

\* ----------------------------------------------------------------- connect
\* SPACE_IDS
SpaceOwnerId == "zerogpu-aoti/wan2-2-fp8da-aoti"

SpaceUrl == "https://zerogpu-aoti-wan2-2-fp8da-aoti.hf.space/"

SPACE_IDS == <<SpaceOwnerId, SpaceUrl>>

\* os.getenv("HF_TOKEN"): unset, set to the empty string, or a token
NoToken == "<None>"

Tokens == {NoToken, "", "hf_xxx"}

\* Python truth value of hf_token
TokenTruthy(tok) == tok \notin {NoToken, ""}

\* the local last_err = None, and the exceptions connect can raise
NoErr == [at |-> 0, target |-> "", what |-> "None"]

ConnectGenericError ==
    [at |-> 0, target |-> "", what |-> "RuntimeError: Failed to connect to any Space target."]

NoClient == [target |-> "", token |-> NoToken]

\* Client(target, hf_token=hf_token) if hf_token else Client(target)
Client(target, tok) ==
    [target |-> target, token |-> IF TokenTruthy(tok) THEN tok ELSE NoToken]

\* what one endpoint does: the constructor raises, view_api raises, or both pass
ConnectOutcomes == {"ctor_raises", "probe_raises", "ok"}

ConnectIdle ==
    /\ c_pc = "idle" /\ space_ids = <<>> /\ c_i = 1 /\ last_err = NoErr
    /\ c_ret = NoClient /\ c_raised = NoErr /\ c_log = <<>>

\* the frame of connect is gone
ConnectReset ==
    /\ c_pc' = "idle" /\ space_ids' = <<>> /\ c_i' = 1 /\ last_err' = NoErr
    /\ c_ret' = NoClient /\ c_raised' = NoErr /\ c_log' = <<>>

\* entry of connect(ids, hf_token): last_err = None
ConnectEnter(ids) ==
    /\ c_pc' = "loop" /\ space_ids' = ids /\ c_i' = 1 /\ last_err' = NoErr
    /\ c_ret' = NoClient /\ c_raised' = NoErr /\ c_log' = <<>>

\* mutant of ConnectTry: a client whose probe fails is returned all the same
ConnectTryNoProbe ==
    /\ c_pc = "loop"
    /\ c_i <= Len(space_ids)
    /\ \E o \in ConnectOutcomes :
         /\ c_log' = Append(c_log, [at |-> c_i, target |-> space_ids[c_i], result |-> o])
         /\ IF o # "ctor_raises"
            THEN /\ c_ret' = Client(space_ids[c_i], hf_token)
                 /\ c_pc' = "returned"
                 /\ UNCHANGED <<last_err, c_i>>
            ELSE /\ last_err' = [at |-> c_i, target |-> space_ids[c_i], what |-> o]
                 /\ c_i' = c_i + 1
                 /\ UNCHANGED <<c_ret, c_pc>>
    /\ UNCHANGED <<space_ids, c_raised, hf_token, san_vars, g_vars, ui_vars>>

\* mutant of ConnectTry: "last_err = last_err or e", the first error is kept
ConnectTryKeepsFirst ==
    /\ c_pc = "loop"
    /\ c_i <= Len(space_ids)
    /\ \E o \in ConnectOutcomes :
         /\ c_log' = Append(c_log, [at |-> c_i, target |-> space_ids[c_i], result |-> o])
         /\ IF o = "ok"
            THEN /\ c_ret' = Client(space_ids[c_i], hf_token)
                 /\ c_pc' = "returned"
                 /\ UNCHANGED <<last_err, c_i>>
            ELSE /\ last_err' = IF last_err # NoErr THEN last_err
                                ELSE [at |-> c_i, target |-> space_ids[c_i], what |-> o]
                 /\ c_i' = c_i + 1
                 /\ UNCHANGED <<c_ret, c_pc>>
    /\ UNCHANGED <<space_ids, c_raised, hf_token, san_vars, g_vars, ui_vars>>

\* one iteration of "for target in space_ids": the try body and its except
ConnectTry ==
    /\ c_pc = "loop"
    /\ c_i <= Len(space_ids)
    /\ \E o \in ConnectOutcomes :
         /\ c_log' = Append(c_log, [at |-> c_i, target |-> space_ids[c_i], result |-> o])
         /\ IF o = "ok"
            THEN /\ c_ret' = Client(space_ids[c_i], hf_token)
                 /\ c_pc' = "returned"
                 /\ UNCHANGED <<last_err, c_i>>
            ELSE /\ last_err' = [at |-> c_i, target |-> space_ids[c_i], what |-> o]
                 /\ c_i' = c_i + 1
                 /\ UNCHANGED <<c_ret, c_pc>>
    /\ UNCHANGED <<space_ids, c_raised, hf_token, san_vars, g_vars, ui_vars>>

\* the loop ran out: raise last_err or RuntimeError(...)
ConnectRaise ==
    /\ c_pc = "loop"
    /\ c_i > Len(space_ids)
    /\ c_raised' = IF last_err # NoErr THEN last_err ELSE ConnectGenericError
    /\ c_pc' = "raised"
    /\ UNCHANGED <<space_ids, c_i, last_err, c_ret, c_log, hf_token,
                   san_vars, g_vars, ui_vars>>

\* ---------------------------------------------------------- generate_video
\* the default of the parameter retries
DefaultRetries == 4

\* OUT_DIR
OUT_DIR == "videos"

\* mutant of durations_try: the fallbacks in ascending order
durations_tryAscending(duration) == <<duration, 35, 40, 50>>

\* durations_try = [duration, 5.0, 4.0, 3.5]
durations_try(duration) == <<duration, 50, 40, 35>>

\* Python's s[:n] for any integer n: a negative n counts from the end
PySliceTo(s, n) ==
    IF n >= 0 THEN Prefix(s, n)
    ELSE IF Len(s) + n <= 0 THEN <<>> ELSE SubSeq(s, 1, Len(s) + n)

\* time.sleep(1.2 * attempt)
Backoff(attempt) == 12 * attempt

\* the local last_exc = None, and the generic error of the last line
NoExc == [at |-> 0, what |-> "None"]

GenGenericError == [at |-> 0, what |-> "RuntimeError: Unknown generation failure."]

NoResult == [dest |-> <<>>, seed |-> "None"]

NoPath == "<None>"

ServerPath == "/tmp/gradio/output.mp4"

\* what client.predict and the local file system do in one attempt:
\*   raises   predict raises          pair     res unpacks into (out, used_seed)
\*   dict     out is a dict           video    out.get("video")
\*   exists   os.path.exists(video)   copy_ok  shutil.copy succeeds
\*   seed_ok  float(used_seed) succeeds
GoodResponse ==
    [raises |-> FALSE, pair |-> TRUE, dict |-> TRUE, video |-> ServerPath,
     exists |-> TRUE, copy_ok |-> TRUE, seed_ok |-> TRUE]

Responses ==
    { GoodResponse,
      [GoodResponse EXCEPT !.raises = TRUE],
      [GoodResponse EXCEPT !.pair = FALSE],
      [GoodResponse EXCEPT !.dict = FALSE],
      [GoodResponse EXCEPT !.video = NoPath],
      [GoodResponse EXCEPT !.video = ""],
      [GoodResponse EXCEPT !.exists = FALSE],
      [GoodResponse EXCEPT !.copy_ok = FALSE],
      [GoodResponse EXCEPT !.seed_ok = FALSE] }

\* no attempt made yet
NoResponse ==
    [raises |-> FALSE, pair |-> FALSE, dict |-> FALSE, video |-> NoPath,
     exists |-> FALSE, copy_ok |-> FALSE, seed_ok |-> FALSE]

\* video_path = out.get("video") if isinstance(out, dict) else None
VideoPath(r) == IF r.dict THEN r.video ELSE NoPath

\* mutant of VideoMissing: the os.path.exists check is left out
VideoMissingNoExists(r) == VideoPath(r) \in {NoPath, ""}

\* not video_path or not os.path.exists(video_path)
VideoMissing(r) == VideoPath(r) \in {NoPath, ""} \/ ~r.exists

\* the exception the try body raises on response r, "None" when it returns
TryBodyError(r) ==
    IF r.raises THEN "predict raised"
    ELSE IF ~r.pair THEN "ValueError: cannot unpack res"
    ELSE IF VideoMissing(r)
         THEN "RuntimeError: Server returned but video file was not found."
    ELSE IF ~r.copy_ok THEN "shutil.copy raised"
    ELSE IF ~r.seed_ok THEN "float(used_seed) raised"
    ELSE "None"

\* shutil.copy(video_path, dest) was reached and succeeded
Copies(r) == ~r.raises /\ r.pair /\ ~VideoMissing(r) /\ r.copy_ok

\* datetime.now().strftime("%Y%m%d-%H%M%S"): a sample reading of the clock
Timestamp == <<"2","0","2","5","0","1","3","1","-","2","3","5","9","5","9">>

\* basename = f"{ts}_{sanitize_filename(prompt[:60])}.mp4"
Basename(prompt) ==
    Timestamp \o <<"_">> \o sanitize_filename(Prefix(prompt, 60)) \o <<".", "m", "p", "4">>

\* the duration slider: 3.0 to 6.0 in steps of 0.1 (tenths of a second)
DurationMin == 30

DurationMax == 60

Durations == DurationMin..DurationMax

\* sample prompts: empty, short with a disallowed character, and one whose
\* 60-character slice ends in a space
GenPrompts ==
    { <<>>, <<"A", " ", "c", "a", "t", "!">>, Rep("a", 59) \o <<" ", "b">> }

GenIdle ==
    /\ g_pc = "idle" /\ g_client = NoClient /\ g_prompt = <<>>
    /\ g_duration = DurationMin /\ g_retries = DefaultRetries /\ g_attempt = 0
    /\ last_exc = NoExc /\ g_ret = NoResult /\ g_raised = NoExc /\ g_resp = NoResponse
    /\ g_calls = <<>> /\ g_sleeps = <<>> /\ g_events = <<>> /\ g_copied = <<>>

\* the frame of generate_video is gone
GenReset ==
    /\ g_pc' = "idle" /\ g_client' = NoClient /\ g_prompt' = <<>>
    /\ g_duration' = DurationMin /\ g_retries' = DefaultRetries /\ g_attempt' = 0
    /\ last_exc' = NoExc /\ g_ret' = NoResult /\ g_raised' = NoExc
    /\ g_resp' = NoResponse
    /\ g_calls' = <<>> /\ g_sleeps' = <<>> /\ g_events' = <<>> /\ g_copied' = <<>>

\* entry of generate_video(client, prompt, duration, ..., retries)
GenEnter(client, prompt, duration, retries) ==
    /\ g_pc' = "loop" /\ g_client' = client /\ g_prompt' = prompt
    /\ g_duration' = duration /\ g_retries' = retries /\ g_attempt' = 0
    /\ last_exc' = NoExc /\ g_ret' = NoResult /\ g_raised' = NoExc
    /\ g_resp' = NoResponse
    /\ g_calls' = <<>> /\ g_sleeps' = <<>> /\ g_events' = <<>> /\ g_copied' = <<>>

\* durations_try[:retries], what the for loop enumerates
Tries == PySliceTo(durations_try(g_duration), g_retries)

\* one iteration of the for loop: the predict call, the checks on its
\* result and the copy; on any exception the except block with its sleep
GenAttempt ==
    /\ g_pc = "loop"
    /\ g_attempt < Len(Tries)
    /\ \E r \in Responses :
         LET attempt == g_attempt + 1
             dest == [dir |-> OUT_DIR, base |-> Basename(g_prompt)]
         IN  /\ g_calls' = Append(g_calls, Tries[attempt])
             /\ g_resp' = r
             /\ g_copied' = IF Copies(r) THEN Append(g_copied, dest) ELSE g_copied
             /\ IF TryBodyError(r) = "None"
                THEN /\ g_ret' = [dest |-> dest, seed |-> "used_seed"]
                     /\ g_pc' = "returned"
                     /\ g_events' = Append(g_events, "predict")
                     /\ UNCHANGED <<last_exc, g_sleeps, g_attempt>>
                ELSE /\ last_exc' = [at |-> attempt, what |-> TryBodyError(r)]
                     /\ g_sleeps' = Append(g_sleeps, Backoff(attempt))
                     /\ g_events' = Append(Append(g_events, "predict"), "sleep")
                     /\ g_attempt' = attempt
                     /\ UNCHANGED <<g_ret, g_pc>>
    /\ UNCHANGED <<g_client, g_prompt, g_duration, g_retries, g_raised,
                   san_vars, c_vars, hf_token, ui_vars>>

\* mutant of GenRaise: the generic error is raised whatever last_exc holds
GenRaiseGeneric ==
    /\ g_pc = "loop"
    /\ g_attempt >= Len(Tries)
    /\ g_raised' = GenGenericError
    /\ g_pc' = "raised"
    /\ UNCHANGED <<g_client, g_prompt, g_duration, g_retries, g_attempt, last_exc,
                   g_ret, g_resp, g_calls, g_sleeps, g_events, g_copied,
                   san_vars, c_vars, hf_token, ui_vars>>

\* after the loop: raise last_exc if last_exc else RuntimeError(...)
GenRaise ==
    /\ g_pc = "loop"
    /\ g_attempt >= Len(Tries)
    /\ g_raised' = IF last_exc # NoExc THEN last_exc ELSE GenGenericError
    /\ g_pc' = "raised"
    /\ UNCHANGED <<g_client, g_prompt, g_duration, g_retries, g_attempt, last_exc,
                   g_ret, g_resp, g_calls, g_sleeps, g_events, g_copied,
                   san_vars, c_vars, hf_token, ui_vars>>

\* ------------------------------------------------------------- the script
\* the prompts the page can produce: a preset, or the stripped free-form
\* text when it is not blank; never the empty string
AppPrompts == GenPrompts \ {<<>>}

UiIdle ==
    /\ ui_pc = "off" /\ ui_clicked = FALSE /\ ui_duration = DurationMin
    /\ ui_prompt = <<>> /\ ui_shown = {} /\ ui_result = "none" /\ ui_prev = "none"
    /\ cache = NoClient

\* the widget values of a run are gone when the run ends
WidgetsReset == ui_clicked' = FALSE /\ ui_duration' = DurationMin /\ ui_prompt' = <<>>

\* a rerun of the script, up to cached_client(hf_token): the widgets are
\* read, and a miss of the cache enters connect(SPACE_IDS, token)
RunStart ==
    /\ ui_pc = "idle"
    /\ \E clicked \in BOOLEAN, d \in Durations, p \in AppPrompts :
         /\ clicked => "button" \in ui_shown
         /\ ui_clicked' = clicked
         /\ ui_duration' = d
         /\ ui_prompt' = p
    /\ ui_shown' = {}
    /\ ui_prev' = ui_result
    /\ ui_result' = "running"
    /\ IF cache # NoClient
       THEN /\ ui_pc' = "button"
            /\ UNCHANGED c_vars
       ELSE /\ ui_pc' = "connecting"
            /\ ConnectEnter(SPACE_IDS)
    /\ UNCHANGED <<cache, hf_token, g_vars, san_vars>>

\* connect returned: st.cache_resource stores the client, client = ...
CachedClientReturn ==
    /\ ui_pc = "connecting"
    /\ c_pc = "returned"
    /\ cache' = c_ret
    /\ ui_pc' = "button"
    /\ ConnectReset
    /\ UNCHANGED <<ui_clicked, ui_duration, ui_prompt, ui_shown, ui_result, ui_prev,
                   hf_token, g_vars, san_vars>>

\* connect raised: st.error(...), st.stop(); nothing is cached
ConnectFailed ==
    /\ ui_pc = "connecting"
    /\ c_pc = "raised"
    /\ ui_shown' = {"connect_error"}
    /\ ui_result' = "connect_failed"
    /\ ui_pc' = "idle"
    /\ ConnectReset
    /\ WidgetsReset
    /\ UNCHANGED <<cache, ui_prev, hf_token, g_vars, san_vars>>

\* st.button(...) is False: the run ends with the notes
ButtonIdle ==
    /\ ui_pc = "button"
    /\ ~ui_clicked
    /\ ui_shown' = {"button", "notes"}
    /\ ui_result' = "rendered"
    /\ ui_pc' = "idle"
    /\ WidgetsReset
    /\ UNCHANGED <<cache, ui_prev, c_vars, hf_token, g_vars, san_vars>>

\* st.button(...) is True: the prompt check, then generate_video(client,
\* prompt, duration, g1, g2, steps, seed, randomize_seed)
ButtonClicked ==
    /\ ui_pc = "button"
    /\ ui_clicked
    /\ IF Strip(ui_prompt) = <<>>
       THEN /\ ui_shown' = {"button", "warning"}
            /\ ui_result' = "no_prompt"
            /\ ui_pc' = "idle"
            /\ WidgetsReset
            /\ UNCHANGED g_vars
       ELSE /\ ui_shown' = {"button", "spinner"}
            /\ ui_pc' = "generating"
            /\ GenEnter(cache, ui_prompt, ui_duration, DefaultRetries)
            /\ UNCHANGED <<ui_result, ui_clicked, ui_duration, ui_prompt>>
    /\ UNCHANGED <<cache, ui_prev, c_vars, hf_token, san_vars>>

\* generate_video returned: success, video, download button, caption, notes
GenSucceeded ==
    /\ ui_pc = "generating"
    /\ g_pc = "returned"
    /\ ui_shown' = {"button", "success", "video", "download", "caption", "notes"}
    /\ ui_result' = "generated"
    /\ ui_pc' = "idle"
    /\ GenReset
    /\ WidgetsReset
    /\ UNCHANGED <<cache, ui_prev, c_vars, hf_token, san_vars>>

\* mutant of GenFailed: the handler drops the cached client
GenFailedDropsClient ==
    /\ ui_pc = "generating"
    /\ g_pc = "raised"
    /\ ui_shown' = {"button", "generation_error"}
    /\ ui_result' = "generation_failed"
    /\ ui_pc' = "idle"
    /\ cache' = NoClient
    /\ GenReset
    /\ WidgetsReset
    /\ UNCHANGED <<ui_prev, c_vars, hf_token, san_vars>>

\* generate_video raised: st.error(...), st.stop()
GenFailed ==
    /\ ui_pc = "generating"
    /\ g_pc = "raised"
    /\ ui_shown' = {"button", "generation_error"}
    /\ ui_result' = "generation_failed"
    /\ ui_pc' = "idle"
    /\ GenReset
    /\ WidgetsReset
    /\ UNCHANGED <<cache, ui_prev, c_vars, hf_token, san_vars>>

\* ---------------------------------------------------------- specifications
\* the application: the server is up, no run of the script has happened
Init ==
    /\ SanIdle /\ ConnectIdle /\ GenIdle
    /\ hf_token \in Tokens
    /\ ui_pc = "idle" /\ ui_clicked = FALSE /\ ui_duration = DurationMin
    /\ ui_prompt = <<>> /\ ui_shown = {} /\ ui_result = "none" /\ ui_prev = "none"
    /\ cache = NoClient

Next ==
    \/ RunStart
    \/ ConnectTry
    \/ ConnectRaise
    \/ CachedClientReturn
    \/ ConnectFailed
    \/ ButtonIdle
    \/ ButtonClicked
    \/ GenAttempt
    \/ GenRaise
    \/ GenSucceeded
    \/ GenFailed

Spec == Init /\ [][Next]_vars

\* connect called on any list of at most MaxSpaces of the endpoints
InitConnect ==
    /\ SanIdle /\ GenIdle /\ UiIdle
    /\ hf_token \in Tokens
    /\ space_ids \in SeqsUpTo({SpaceOwnerId, SpaceUrl}, MaxSpaces)
    /\ c_pc = "loop" /\ c_i = 1 /\ last_err = NoErr
    /\ c_ret = NoClient /\ c_raised = NoErr /\ c_log = <<>>

NextConnect == ConnectTry \/ ConnectRaise

SpecConnect == InitConnect /\ [][NextConnect]_vars

\* generate_video called with any slider duration and any retries
InitGen ==
    /\ SanIdle /\ ConnectIdle /\ UiIdle
    /\ hf_token = NoToken
    /\ g_pc = "loop"
    /\ g_client = Client(SpaceOwnerId, NoToken)
    /\ g_prompt \in GenPrompts
    /\ g_duration \in Durations
    /\ g_retries \in (0 - MaxAbsRetries)..MaxAbsRetries
    /\ g_attempt = 0 /\ last_exc = NoExc /\ g_ret = NoResult /\ g_raised = NoExc
    /\ g_resp = NoResponse
    /\ g_calls = <<>> /\ g_sleeps = <<>> /\ g_events = <<>> /\ g_copied = <<>>

NextGen == GenAttempt \/ GenRaise

SpecGen == InitGen /\ [][NextGen]_vars

\* sanitize_filename applied to any of SanInputs
InitSan ==
    /\ ConnectIdle /\ GenIdle /\ UiIdle
    /\ hf_token = NoToken
    /\ san_pc = "in" /\ san_in \in SanInputs /\ san_out = <<>>

NextSan == SanitizeCall

SpecSan == InitSan /\ [][NextSan]_vars

\* ------------------------------------------------------------------ claims
AllPositions(log) == 1..Len(log)

\* C1: connect contacts the endpoints strictly in list order; it returns the
\* client of the first endpoint whose construction and view_api probe both
\* succeed, nothing is contacted after that success, and an endpoint whose
\* probe fails counts as failed (connect goes on, or raises at the end).
C1_FirstLiveEndpoint ==
    /\ Len(c_log) <= Len(space_ids)
    /\ \A k \in AllPositions(c_log) :
         /\ c_log[k].at = k
         /\ c_log[k].target = space_ids[k]
         /\ k < Len(c_log) => c_log[k].result # "ok"
    /\ c_pc = "returned" =>
         /\ c_log # <<>>
         /\ c_log[Len(c_log)].result = "ok"
         /\ c_ret.target = space_ids[Len(c_log)]
         /\ c_ret.token = (IF hf_token = "" THEN NoToken ELSE hf_token)
    /\ (c_log # <<>> /\ c_log[Len(c_log)].result = "ok") => c_pc = "returned"
    /\ c_pc = "raised" => Len(c_log) = Len(space_ids) /\ c_ret = NoClient

C1_Witness ==
    /\ c_pc = "returned"
    /\ Len(space_ids) = 3
    /\ Len(c_log) = 2
    /\ c_log[1].result = "probe_raises"

\* C2: when every endpoint of a non-empty list fails, connect raises the
\* error recorded for the last endpoint of the list.
C2_RaisesLastError ==
    (c_pc = "raised" /\ space_ids # <<>>) =>
        /\ c_raised.at = Len(space_ids)
        /\ c_raised.target = space_ids[Len(space_ids)]
        /\ c_raised.what = c_log[Len(space_ids)].result
        /\ c_raised # ConnectGenericError

C2_Witness ==
    /\ c_pc = "raised"
    /\ Len(space_ids) = 2
    /\ c_log[1].result = "ctor_raises"
    /\ c_log[2].result = "probe_raises"
    /\ space_ids[1] # space_ids[2]

\* an attempt that met r went through: a dict with a non-empty video path
\* that exists, copied, with a seed that converts
WentThrough(r) ==
    /\ ~r.raises /\ r.pair /\ r.dict /\ r.video = ServerPath
    /\ r.exists /\ r.copy_ok /\ r.seed_ok

\* C3: the predict calls use the durations [requested, 5.0, 4.0, 3.5] in
\* that order, one call per iteration, at most retries of them for a retry
\* count (retries >= 0); the first attempt that goes through returns its
\* result and no call follows it.
C3_State ==
    /\ Len(g_calls) <= 4
    /\ \A k \in AllPositions(g_calls) : g_calls[k] = <<g_duration, 50, 40, 35>>[k]
    /\ g_retries >= 0 => Len(g_calls) <= g_retries
    /\ Len(g_calls) = g_attempt + (IF g_pc = "returned" THEN 1 ELSE 0)
    /\ WentThrough(g_resp) <=> g_pc = "returned"
    /\ g_pc = "returned" =>
         /\ g_ret.seed = "used_seed"
         /\ g_ret.dest.dir = "videos"
         /\ g_copied # <<>> /\ g_copied[Len(g_copied)] = g_ret.dest
    /\ g_pc # "returned" => g_ret = NoResult

C3_LadderStopsAtFirstSuccess ==
    [](g_pc # "idle" => C3_State) /\ [][g_pc = "returned" => g_calls' = g_calls]_vars

C3_Witness ==
    /\ g_pc = "returned"
    /\ g_duration = 60
    /\ g_calls = <<60, 50, 40>>
    /\ g_retries = 4

\* C4: when every attempt made failed, generate_video raises the exception
\* of the last attempt made and returns nothing.
C4_RaisesLastException ==
    (g_pc = "raised" /\ g_calls # <<>>) =>
        /\ g_raised.at = Len(g_calls)
        /\ g_raised.what = TryBodyError(g_resp)
        /\ g_raised.what # "None"
        /\ g_raised # GenGenericError
        /\ g_ret = NoResult

C4_Witness ==
    /\ g_pc = "raised"
    /\ Len(g_calls) = 4
    /\ g_raised = [at |-> 4, what |-> "float(used_seed) raised"]

\* C5 (as claimed): every sleep follows a failed attempt and is followed by
\* the next attempt, and the sleeps grow strictly.
C5_SleepsBetweenAttempts ==
    /\ \A k \in AllPositions(g_events) :
         g_events[k] = "sleep" =>
            /\ k > 1 /\ g_events[k - 1] = "predict"
            /\ k < Len(g_events) => g_events[k + 1] = "predict"
    /\ (g_pc \in {"returned", "raised"} /\ g_events # <<>>) =>
         g_events[Len(g_events)] = "predict"
    /\ \A k \in AllPositions(g_sleeps) :
         /\ g_sleeps[k] = 12 * k
         /\ k > 1 => g_sleeps[k] > g_sleeps[k - 1]

\* C6 (as claimed): every attempt after the first asks for a duration
\* shorter than the requested one.
C6_RetriesAreShorter ==
    \A k \in AllPositions(g_calls) : k > 1 => g_calls[k] < g_duration

\* the characters of [A-Za-z0-9_.-]
FilenameChars == Letters \cup Digits \cup {"_", ".", "-"}

CountOf(S, s) == Cardinality({i \in 1..Len(s) : s[i] \in S})

\* the maximal runs of characters outside the class, counted by their starts
NumRuns(s) ==
    Cardinality({i \in 1..Len(s) :
        s[i] \notin KeptChars /\ (i = 1 \/ s[i - 1] \in KeptChars)})

\* length of s once every run is one character long
CollapsedLen(s) == Len(s) - CountOf({c \in SanAlphabet : c \notin KeptChars}, s) + NumRuns(s)

\* the leading and trailing spaces of s
EdgeSpaces(s) ==
    Cardinality({i \in 1..Len(s) :
        \/ \A j \in 1..i : s[j] = " "
        \/ \A j \in i..Len(s) : s[j] = " "})

\* C7: sanitize_filename returns at most 80 characters, all of them in
\* [A-Za-z0-9_.-] (no space is left); and, when the 80-character slice cuts
\* nothing, each run of disallowed characters has become exactly one "_",
\* each inner space one "_", edge spaces are gone and the rest is unchanged.
C7_SanitizedName ==
    san_pc = "out" =>
        /\ Len(san_out) <= 80
        /\ \A i \in 1..Len(san_out) : san_out[i] \in FilenameChars
        /\ CollapsedLen(san_in) <= 80 =>
             /\ Len(san_out) = CollapsedLen(san_in) - EdgeSpaces(san_in)
             /\ CountOf({"_"}, san_out) =
                    CountOf({"_"}, san_in) + NumRuns(san_in)
                    + CountOf({" "}, san_in) - EdgeSpaces(san_in)
             /\ CountOf({"a"}, san_out) = CountOf({"a"}, san_in)

C7_Witness ==
    /\ san_pc = "out"
    /\ Len(san_in) = 81
    /\ SubSeq(san_in, 1, 2) = <<"!", " ">>
    /\ SubSeq(san_in, 80, 81) = <<"!", "!">>
    /\ Len(san_out) = 80
    /\ SubSeq(san_out, 1, 2) = <<"_", "_">>

\* C8: a failed generation ends only its run: the error is shown, neither
\* the success message nor the video, the button stays and the cached client
\* is kept, so the next run goes straight to the button without connect and
\* a click calls generate_video with the cached client and the default
\* retries (four attempts before it raises).  A failed connect ends the run
\* with the error alone, no button, and nothing cached, so no click can
\* start the next run.
C8_FailureScopes ==
    /\ (ui_pc = "idle" /\ ui_result = "generation_failed") =>
         /\ "generation_error" \in ui_shown
         /\ "success" \notin ui_shown /\ "video" \notin ui_shown
         /\ "button" \in ui_shown
         /\ cache # NoClient
    /\ (ui_result = "running" /\ ui_prev = "generation_failed") =>
         /\ ui_pc \in {"button", "generating"}
         /\ c_pc = "idle" /\ c_log = <<>>
    /\ ui_pc = "generating" =>
         /\ ui_clicked
         /\ g_client = cache /\ cache # NoClient
         /\ g_retries = 4
         /\ g_duration = ui_duration /\ g_prompt = ui_prompt
         /\ g_pc = "raised" => Len(g_calls) = 4
    /\ (ui_pc = "idle" /\ ui_result = "connect_failed") =>
         /\ ui_shown = {"connect_error"}
         /\ cache = NoClient
    /\ (ui_result = "running" /\ ui_prev \in {"none", "connect_failed"}) =>
         /\ ~ui_clicked
         /\ ui_pc # "generating"

C8_Witness ==
    /\ ui_prev = "generation_failed"
    /\ ui_pc = "generating"
    /\ g_pc = "raised"
    /\ g_calls = <<ui_duration, 50, 40, 35>>

\* the response carries a file: a dict with a non-empty "video" path that
\* exists on disk
HasFile(r) == ~r.raises /\ r.pair /\ r.dict /\ r.video \notin {NoPath, ""} /\ r.exists

\* C9: generate_video returns only from an attempt whose response carries a
\* file; an attempt whose response carries none copies nothing, returns
\* nothing, records its exception and sleeps, and the loop goes on.
C9_State ==
    /\ g_pc = "returned" => HasFile(g_resp)
    /\ (g_calls # <<>> /\ ~HasFile(g_resp)) =>
         /\ g_ret = NoResult
         /\ last_exc.at = Len(g_calls)
         /\ g_events[Len(g_events)] = "sleep"
         /\ Len(g_sleeps) = Len(g_calls)

C9_Step ==
    (g_calls' # g_calls /\ ~HasFile(g_resp')) =>
        /\ g_copied' = g_copied
        /\ g_ret' = NoResult
        /\ g_pc' = "loop"
        /\ g_attempt' = g_attempt + 1

C9_SuccessNeedsFile == [](g_pc # "idle" => C9_State) /\ [][C9_Step]_vars

C9_Witness ==
    /\ g_pc = "loop"
    /\ g_resp = [GoodResponse EXCEPT !.exists = FALSE]
    /\ Len(g_calls) = 2
    /\ Len(g_sleeps) = 2
    /\ g_copied = <<>>

\* C10 (as claimed): for every integer retries the calls number at most
\* retries (none when retries is negative: a count of calls is never below
\* zero), and at most min(retries, 4) when retries >= 0; retries = 0 makes
\* no call and no sleep and raises the generic error.
C10_CallsBoundedByRetries ==
    /\ g_retries < 0 => g_calls = <<>>
    /\ g_retries >= 0 => Len(g_calls) <= (IF g_retries < 4 THEN g_retries ELSE 4)
    /\ (g_retries = 0 /\ g_pc = "raised") =>
         g_calls = <<>> /\ g_sleeps = <<>> /\ g_raised = GenGenericError

====
